---- MODULE Spec2Model ----
(***************************************************************************)
(* Control core of the gate-actuator simulator (src/srv.py): the Ramp      *)
(* generator and the GateSystem state machine with its fixed-period        *)
(* control cycle.  The last section models the task ordering and the       *)
(* schedule of the move planner (src/last/app.py, src/app.py) under its    *)
(* own specification, SchedSpec.                                           *)
(*                                                                         *)
(* Units.  Time is counted in sixteenths of a second, so every duration    *)
(* of the source is an integer: SAMPLE_PERIOD 0.25 s = 4, RAMP_DOWN_SEC    *)
(* 5 s = 80, RAMP_UP_SEC 12 s = 192.  All frame periods used are binary    *)
(* fractions of a second, so the float accumulations of the source         *)
(* (sample_timer, ramp.t) are exact.  The position 0.0 .. 1.0 is counted   *)
(* in units of 1/POS_ONE, chosen so that the integration step              *)
(* position += direction * BASE_SPEED * frac * dt is an integer addition.  *)
(* Voltage codes are the 8-bit DAC codes of the source.  The arithmetic is  *)
(* exact: the rounding error of the float position of the source (a        *)
(* position that differs from a threshold by less than 1e-15) is not       *)
(* modelled.                                                               *)
(***************************************************************************)
EXTENDS Integers, Sequences, FiniteSets, TLC

\* ---------------------------------------------------------------- constants
DAC_MAX == 255
DAC_VMAX == 120
U_NOM == 116
CODE_NOM == 246
CODE_HALF == 123
CODE_SLOW == 74
CODE_ZERO == 0

\* ADC: 8 bits over 0 .. 19.5 V (ADC_VREF_X2 is twice ADC_VREF, in volts);
\* tensometric sensor: 0 .. 120 kgf/mm^2 -> 0 .. 15 V
ADC_MAX == 255
ADC_VREF_X2 == 39
TENSO_MAX == 120
TENSO_U_MAX == 15

TH_55 == 55
TH_70 == 70
TH_95 == 95

RAMP_UP_SEC == 192
RAMP_DOWN_SEC == 80
SAMPLE_PERIOD == 4
TRAVEL_TIME_AT_NOM == 480

\* position 1.0; one time unit at fraction frac = code*DAC_VMAX/(DAC_MAX*U_NOM)
\* of the nominal speed moves the gate by code*DAC_VMAX position units
POS_ONE == DAC_MAX * U_NOM * TRAVEL_TIME_AT_NOM
OPEN1_POS == (POS_ONE * 80) \div 100
OPEN2_POS == POS_ONE
CLOSE1_POS == (POS_ONE * 20) \div 100
CLOSE2_POS == 0

\* ------------------------------------------------------------------- bounds
\* number of button presses and of sensor changes the environment makes in a run
MaxPresses == 2
MaxSensorEvents == 2
\* number of update calls, from the start of a run, over which the elapsed
\* time and the control cycles are totalled
MaxTicks == 4

\* Frame periods (the dt of GateSystem.update) of a run, in time units.
\* Coarse frames (15 s, 5 s) and the mid frame (2 s) run many control cycles
\* per update; fine frames (1/16 s .. 1/4 s) run none or one.  Sensor changes
\* are explored on the coarse frames and, with a smaller budget, on the mid
\* frame; a run with a fine frame has button presses only.
CoarseDt == {240, 80}
MidDt == {32}
FineDt == {1, 2, 3, 4}
\* stress readings the operator dials in (kgf/mm^2): below TH_55, between
\* TH_55 and TH_70, between TH_70 and TH_95, at TH_95
StressLevels == {0, 60, 72, 95}

\* ------------------------------------------------------------------ helpers
clamp(x, a, b) == IF x < a THEN a ELSE IF x > b THEN b ELSE x

\* Python round() of the non-negative rational n/d: nearest, ties to even
RoundHalfEven(n, d) ==
  LET q == n \div d
      r == n % d
  IN  IF 2 * r < d THEN q
      ELSE IF 2 * r > d THEN q + 1
      ELSE IF q % 2 = 0 THEN q ELSE q + 1

\* F(v) for the value v of x, x being evaluated once
Bind(x, F(_)) == CHOOSE r \in {F(v) : v \in {x}} : TRUE

VARIABLES
  state, direction, position,
  uz1, uz2, stress,
  ko, kz,
  kv_o1, kv_o2, kv_z1, kv_z2,
  slow_mode_30,
  dac_code, target_code,
  ramp,
  sample_timer,
  zp_adc_pulse, zp_dac_pulse, gt_flag,
  \* environment and observation
  dt,        \* frame period of this run
  op,        \* the operation that produced this state
  logged,    \* the messages the operation passed to the log callback
  cycles,    \* control cycles run by the last update
  mid,       \* controller state the first control cycle of the last update saw
  elapsed,   \* sum of the dt of the first MaxTicks update calls
  steps,     \* control_step invocations made by those calls
  presses, sensorEvents,
  \* a Ramp driven on its own (RampSpec)
  ramp_req,  \* the arguments of its Ramp.start call
  ramp_cum,  \* sum of the dt of the Ramp.update calls since then
  ramp_ret,  \* what the last Ramp.update call returned
  \* the force quantizer called on its own (QuantSpec)
  quant_u,   \* the two voltages of the last two adc_code_from_voltage calls
  quant_code, \* the two codes those calls returned
  \* the move planner (src/last/app.py, src/app.py; SchedSpec)
  picked_tasks,  \* the IRIs of the tasks select_tasks returned, in its order
  depends_on,    \* Task.depends_on of every task of the ontology
  request,       \* n_items, fragile_count and move_type of the request
  ordered_tasks, \* what topo_sort returned
  schedule       \* what build_schedule_cp returned, or the error it raised

vars == <<state, direction, position, uz1, uz2, stress, ko, kz,
          kv_o1, kv_o2, kv_z1, kv_z2, slow_mode_30, dac_code, target_code,
          ramp, sample_timer, zp_adc_pulse, zp_dac_pulse, gt_flag,
          dt, op, logged, cycles, mid, elapsed, steps, presses,
          sensorEvents, ramp_req, ramp_cum, ramp_ret, quant_u, quant_code,
          picked_tasks, depends_on, request, ordered_tasks, schedule>>

rampObs == <<ramp_req, ramp_cum, ramp_ret>>
quantObs == <<quant_u, quant_code>>
schedObs == <<picked_tasks, depends_on, request, ordered_tasks, schedule>>

\* --------------------------------------------------------------------- Ramp
RampInit == [active |-> FALSE, start_code |-> 0, end_code |-> 0,
             duration |-> 0, t |-> 0]

\* Ramp.start; max(1e-6, duration) is the duration itself for the two
\* durations the controller uses
RampStart(current_code, target, duration) ==
  [active |-> TRUE, start_code |-> current_code, end_code |-> target,
   duration |-> duration, t |-> 0]

\* Ramp.update that reports completion only past the end (k > 1.0)
RampUpdate_never_done(r, d) ==
  LET t2 == r.t + d
      tc == clamp(t2, 0, r.duration)
      code == RoundHalfEven(r.start_code * r.duration
                              + (r.end_code - r.start_code) * tc, r.duration)
      done == tc > r.duration
  IN  [ramp |-> [r EXCEPT !.t = t2, !.active = ~done], code |-> code]

\* Ramp.update that interpolates from the end value back to the start value
RampUpdate_reversed(r, d) ==
  LET t2 == r.t + d
      tc == clamp(t2, 0, r.duration)
      code == RoundHalfEven(r.end_code * r.duration
                              + (r.start_code - r.end_code) * tc, r.duration)
      done == tc >= r.duration
  IN  [ramp |-> [r EXCEPT !.t = t2, !.active = ~done], code |-> code]

\* Ramp.update of an active ramp: the new ramp and the returned code
RampUpdate(r, d) ==
  LET t2 == r.t + d
      tc == clamp(t2, 0, r.duration)        \* k = tc / duration
      code == RoundHalfEven(r.start_code * r.duration
                              + (r.end_code - r.start_code) * tc, r.duration)
      done == tc >= r.duration
  IN  [ramp |-> [r EXCEPT !.t = t2, !.active = ~done], code |-> code]

\* Ramp.update, also of a ramp that is not active: the ramp after the call
\* and the returned pair (code, done)
Ramp_update(r, d) ==
  IF ~r.active THEN [ramp |-> r, code |-> r.end_code, done |-> FALSE]
  ELSE [ramp |-> RampUpdate(r, d).ramp, code |-> RampUpdate(r, d).code,
        done |-> ~RampUpdate(r, d).ramp.active]

\* Ramp.start with its floor on the duration, duration = max(1e-6, duration).
\* Where a Ramp is driven on its own (RampSpec) time is counted in half
\* microseconds, so that the floor of 1e-6 s is MIN_DURATION = 2 and shorter
\* requests can be made.
MIN_DURATION == 2
Ramp_start(current_code, target, duration) ==
  RampStart(current_code, target,
            IF duration < MIN_DURATION THEN MIN_DURATION ELSE duration)

\* --------------------------------------------------------------- controller
\* The part of GateSystem a control cycle reads and writes
Ctl == [state |-> state, direction |-> direction, slow |-> slow_mode_30,
        dac |-> dac_code, target |-> target_code, ramp |-> ramp,
        zp_dac |-> zp_dac_pulse, zp_adc |-> zp_adc_pulse, gt |-> gt_flag,
        log |-> <<>>]

\* start_ramp with the new ramp begun at the old target, not at the present code
start_ramp_from_target(c, target, duration) ==
  LET tc == clamp(target, 0, 255)
  IN  IF tc = c.target /\ c.ramp.active THEN c
      ELSE [c EXCEPT !.target = tc,
                     !.ramp = RampStart(c.target, tc, duration),
                     !.zp_dac = TRUE]

\* start_ramp that arms the ramp and does not install the new target
start_ramp_target_not_installed(c, target, duration) ==
  LET tc == clamp(target, 0, 255)
  IN  IF tc = c.target /\ c.ramp.active THEN c
      ELSE [c EXCEPT !.ramp = RampStart(c.dac, tc, duration),
                     !.zp_dac = TRUE]

\* GateSystem.start_ramp
start_ramp(c, target, duration) ==
  LET tc == clamp(target, 0, 255)
  IN  IF tc = c.target /\ c.ramp.active THEN c
      ELSE [c EXCEPT !.target = tc,
                     !.ramp = RampStart(c.dac, tc, duration),
                     !.zp_dac = TRUE]

\* nominal_target_code without the look at the first limit switch
nominal_target_code_ignores_limit(st, o1, z1) ==
  IF st \in {"OPENING", "CLOSING"} THEN CODE_NOM ELSE CODE_ZERO

\* nominal_target_code that gives the half voltage wherever the gate moves
nominal_target_code_half(st, o1, z1) ==
  IF st \in {"OPENING", "CLOSING"} THEN CODE_HALF ELSE CODE_ZERO

\* nominal_target_code that reads the first switch of the other direction
nominal_target_code_swapped(st, o1, z1) ==
  IF st = "OPENING" THEN (IF z1 THEN CODE_HALF ELSE CODE_NOM)
  ELSE IF st = "CLOSING" THEN (IF o1 THEN CODE_HALF ELSE CODE_NOM)
  ELSE CODE_ZERO

\* GateSystem.nominal_target_code
nominal_target_code(st, o1, z1) ==
  IF st = "OPENING" THEN (IF o1 THEN CODE_HALF ELSE CODE_NOM)
  ELSE IF st = "CLOSING" THEN (IF z1 THEN CODE_HALF ELSE CODE_NOM)
  ELSE CODE_ZERO

\* emergency_stop that leaves the slow-mode flag as it is
emergency_stop_keeps_slow(c, reason) ==
  LET c1 == IF c.state # "STOPPED"
              THEN [c EXCEPT !.log = Append(c.log, reason)] ELSE c
  IN  start_ramp([c1 EXCEPT !.state = "STOPPED", !.direction = 0],
                 CODE_ZERO, RAMP_DOWN_SEC)

\* emergency_stop that leaves the direction as it is
emergency_stop_keeps_direction(c, reason) ==
  LET c1 == IF c.state # "STOPPED"
              THEN [c EXCEPT !.log = Append(c.log, reason)] ELSE c
  IN  start_ramp([c1 EXCEPT !.state = "STOPPED", !.slow = FALSE],
                 CODE_ZERO, RAMP_DOWN_SEC)

\* emergency_stop that leaves the ramp under way to run on
emergency_stop_no_ramp(c, reason) ==
  [c EXCEPT !.state = "STOPPED", !.direction = 0, !.slow = FALSE,
            !.log = Append(@, reason)]

\* GateSystem.emergency_stop
emergency_stop(c, reason) ==
  LET c1 == IF c.state # "STOPPED"
              THEN [c EXCEPT !.log = Append(c.log, reason)] ELSE c
  IN  start_ramp([c1 EXCEPT !.state = "STOPPED", !.direction = 0,
                            !.slow = FALSE],
                 CODE_ZERO, RAMP_DOWN_SEC)

\* normal_stop_to_zero that also enters IDLE at once
normal_stop_to_idle(c, reason) ==
  start_ramp([c EXCEPT !.log = Append(c.log, reason), !.state = "IDLE",
                       !.direction = 0, !.slow = FALSE],
             CODE_ZERO, RAMP_DOWN_SEC)

\* normal_stop_to_zero that leaves slow mode on
normal_stop_keeps_slow(c, reason) ==
  start_ramp([c EXCEPT !.direction = 0, !.log = Append(@, reason)],
             CODE_ZERO, RAMP_DOWN_SEC)

\* GateSystem.normal_stop_to_zero
normal_stop_to_zero(c, reason) ==
  start_ramp([c EXCEPT !.log = Append(c.log, reason), !.direction = 0,
                       !.slow = FALSE],
             CODE_ZERO, RAMP_DOWN_SEC)

\* the limit-switch rules with the first limit switch looked at first
limit_rules_lim1_first(c, lim1, lim2, msg1, msg2) ==
  IF lim1 /\ ~c.slow /\ c.target > CODE_HALF
    THEN start_ramp([c EXCEPT !.log = Append(c.log, msg1)],
                    CODE_HALF, RAMP_DOWN_SEC)
  ELSE IF lim2 THEN normal_stop_to_zero(c, msg2)
  ELSE c

\* the limit-switch rules without the test of the installed target
limit_rules_retrigger(c, lim1, lim2, msg1, msg2) ==
  IF lim2 THEN normal_stop_to_zero(c, msg2)
  ELSE IF lim1 /\ ~c.slow
    THEN start_ramp([c EXCEPT !.log = Append(c.log, msg1)],
                    CODE_HALF, RAMP_DOWN_SEC)
  ELSE c

\* The limit-switch rules of control_step for one travel direction:
\* lim2 / lim1 are the second and first limit switch of that direction
limit_rules(c, lim1, lim2, msg1, msg2) ==
  IF lim2 THEN normal_stop_to_zero(c, msg2)
  ELSE IF lim1 /\ ~c.slow /\ c.target > CODE_HALF
    THEN start_ramp([c EXCEPT !.log = Append(c.log, msg1)],
                    CODE_HALF, RAMP_DOWN_SEC)
  ELSE c

\* the critical-force check made before the obstacle check
emergency_cause_force_first(us_or, s) ==
  IF s >= TH_95 THEN "emergency_force"
  ELSE IF us_or THEN "emergency_obstacle"
  ELSE "none"

\* control_step: the two emergency checks, in their order
emergency_cause(us_or, s) ==
  IF us_or THEN "emergency_obstacle"
  ELSE IF s >= TH_95 THEN "emergency_force"
  ELSE "none"

\* slow mode left below the entry threshold (no hysteresis)
slow_exit_no_hysteresis(c, s) == c.slow /\ s < TH_70

\* control_step: the condition for leaving slow mode
slow_exit(c, s) == c.slow /\ s < TH_55

\* GateSystem.control_step on controller state c0; r holds the sensor
\* readings of the tick: us_or, s (stress) and the four limit switches
control_step(c0, r) ==
  LET c == [c0 EXCEPT !.zp_adc = TRUE, !.gt = TRUE]
  IN  IF c.state \notin {"OPENING", "CLOSING"} THEN c
      ELSE IF emergency_cause(r.us_or, r.s) # "none"
        THEN emergency_stop(c, emergency_cause(r.us_or, r.s))
      ELSE IF r.s >= TH_70 THEN
        (IF ~c.slow
           THEN start_ramp([c EXCEPT !.slow = TRUE,
                                     !.log = Append(c.log, "slow_on")],
                           CODE_SLOW, RAMP_DOWN_SEC)
           ELSE c)
      ELSE IF slow_exit(c, r.s) THEN
        start_ramp([c EXCEPT !.slow = FALSE,
                             !.log = Append(c.log, "slow_off")],
                   nominal_target_code(c.state, r.o1, r.z1), RAMP_UP_SEC)
      ELSE IF c.state = "OPENING"
        THEN limit_rules(c, r.o1, r.o2, "kv_o1", "kv_o2")
        ELSE limit_rules(c, r.z1, r.z2, "kv_z1", "kv_z2")

\* The while loop of update: seq ends with the current controller state and is
\* extended by the state after each of up to n control cycles.  A cycle that
\* changes nothing (and logs nothing) ends the list: the cycles after it see
\* the same state and the same readings.
RECURSIVE cycle_states(_, _, _)
cycle_states(seq, n, r) ==
  IF n = 0 THEN seq
  ELSE Bind(control_step(seq[Len(seq)], r),
            LAMBDA c1 :
              IF c1 = seq[Len(seq)] THEN Append(seq, c1)
              ELSE Bind(Append(seq, c1),
                        LAMBDA s2 : cycle_states(s2, n - 1, r)))

cycles_settled(seq) ==
  Len(seq) >= 2 /\ seq[Len(seq)] = seq[Len(seq) - 1]

\* cycle_states, evaluated eight cycles at a time
RECURSIVE control_cycles(_, _, _)
control_cycles(seq, n, r) ==
  IF n <= 8 THEN cycle_states(seq, n, r)
  ELSE Bind(cycle_states(seq, 8, r),
            LAMBDA s2 : IF cycles_settled(s2) THEN s2
                        ELSE control_cycles(s2, n - 8, r))

\* ------------------------------------------------------------ port words
\* bit i of the word w
Bit(w, i) == (w \div (2 ^ i)) % 2
B(flag) == IF flag THEN 1 ELSE 0

\* voltages are counted in units of 1 / (2 * TENSO_MAX) volt, in which the
\* reference voltage of 19.5 V is a whole number
ADC_VREF == ADC_VREF_X2 * TENSO_MAX

\* tenso_to_voltage(s): s / TENSO_MAX * TENSO_U_MAX volts
tenso_to_voltage(s) == 2 * s * TENSO_U_MAX

\* the quantizer without the clamp, the code cut to eight bits instead
adc_code_from_voltage_wraps(u) ==
  RoundHalfEven((IF u < 0 THEN 0 ELSE u) * ADC_MAX, ADC_VREF) % (ADC_MAX + 1)

\* adc_code_from_voltage(u): u clamped to 0 .. ADC_VREF, scaled to
\* 0 .. ADC_MAX and rounded
adc_code_from_voltage(u) ==
  RoundHalfEven(clamp(u, 0, ADC_VREF) * ADC_MAX, ADC_VREF)

\* the code update puts into the input word for the stress s
adc_code_from_stress(s) == adc_code_from_voltage(tenso_to_voltage(s))

\* build_port300 with the bits of kv_o2 and kv_z1 exchanged
build_port300_swapped(adc_code) ==
  (adc_code % 256)
    + B(kv_o1) * 2 ^ 8 + B(kv_z1) * 2 ^ 9 + B(kv_o2) * 2 ^ 10
    + B(kv_z2) * 2 ^ 11 + B(uz1 \/ uz2) * 2 ^ 12
    + B(ko) * 2 ^ 13 + B(kz) * 2 ^ 14 + B(gt_flag) * 2 ^ 15

\* GateSystem.build_port300: the flags are or-ed into distinct bits
build_port300(adc_code) ==
  (adc_code % 256)
    + B(kv_o1) * 2 ^ 8 + B(kv_o2) * 2 ^ 9 + B(kv_z1) * 2 ^ 10
    + B(kv_z2) * 2 ^ 11 + B(uz1 \/ uz2) * 2 ^ 12
    + B(ko) * 2 ^ 13 + B(kz) * 2 ^ 14 + B(gt_flag) * 2 ^ 15

\* build_port301 with a direction bit (1 = open) at bit 8
build_port301_with_direction ==
  (dac_code % 256) + B(direction = 1) * 2 ^ 8
    + B(zp_dac_pulse) * 2 ^ 14 + B(zp_adc_pulse) * 2 ^ 15

\* GateSystem.build_port301
build_port301 ==
  (dac_code % 256) + B(zp_dac_pulse) * 2 ^ 14 + B(zp_adc_pulse) * 2 ^ 15

\* the two words update returns, built from the state update leaves
port300 == build_port300(adc_code_from_stress(stress))
port301 == build_port301

\* --------------------------------------------------------------------- Init
\* GateSystem.__init__
Init ==
  /\ state = "IDLE" /\ direction = 0 /\ position = 0
  /\ uz1 = FALSE /\ uz2 = FALSE /\ stress = 0
  /\ ko = FALSE /\ kz = FALSE
  /\ kv_o1 = FALSE /\ kv_o2 = FALSE /\ kv_z1 = TRUE /\ kv_z2 = TRUE
  /\ slow_mode_30 = FALSE
  /\ dac_code = 0 /\ target_code = 0
  /\ ramp = RampInit
  /\ sample_timer = 0
  /\ zp_adc_pulse = FALSE /\ zp_dac_pulse = FALSE /\ gt_flag = TRUE
  /\ dt \in CoarseDt \cup MidDt \cup FineDt
  /\ op = "init" /\ logged = <<>> /\ cycles = 0
  /\ mid = Ctl
  /\ elapsed = 0 /\ steps = 0
  /\ presses = 0 /\ sensorEvents = 0
  /\ ramp_req = [from |-> 0, to |-> 0, duration |-> 0]
  /\ ramp_cum = 0
  /\ ramp_ret = [code |-> 0, done |-> FALSE]
  /\ quant_u = <<0, 0>> /\ quant_code = <<0, 0>>
  /\ picked_tasks = <<>> /\ depends_on = <<>>
  /\ request = [n_items |-> 0, fragile_count |-> 0, move_type |-> "DOMESTIC_RU"]
  /\ ordered_tasks = <<>> /\ schedule = [status |-> "none"]

\* how many button presses a run of frame period dt explores
PressBudget == IF dt \in MidDt THEN MaxPresses - 1 ELSE MaxPresses

\* ------------------------------------------------------------------ actions
\* a press that is taken in every state, also while the gate is moving
Press_in_motion(newState, dir, msg, newKo, newKz) ==
  /\ presses < PressBudget
  /\ presses' = presses + 1
  /\ ko' = newKo /\ kz' = newKz
  /\ op' = msg
  /\ LET c == start_ramp([Ctl EXCEPT !.state = newState, !.direction = dir,
                                     !.slow = FALSE],
                         nominal_target_code(newState, kv_o1, kv_z1),
                         RAMP_UP_SEC)
     IN  /\ state' = c.state /\ direction' = c.direction
         /\ slow_mode_30' = c.slow
         /\ target_code' = c.target /\ ramp' = c.ramp
         /\ zp_dac_pulse' = c.zp_dac
         /\ logged' = <<msg>>
  /\ UNCHANGED <<position, uz1, uz2, stress, kv_o1, kv_o2, kv_z1, kv_z2,
                 dac_code, sample_timer, zp_adc_pulse, gt_flag, dt, cycles,
                 mid, elapsed, steps, sensorEvents, rampObs, quantObs, schedObs>>

\* press_open / press_close: the button flags, and the start of motion when
\* the gate is IDLE or STOPPED
Press(newState, dir, msg, newKo, newKz) ==
  /\ presses < PressBudget
  /\ presses' = presses + 1
  /\ ko' = newKo /\ kz' = newKz
  /\ op' = msg
  /\ IF state \in {"IDLE", "STOPPED"}
       THEN LET c == start_ramp([Ctl EXCEPT !.state = newState,
                                            !.direction = dir,
                                            !.slow = FALSE],
                                nominal_target_code(newState, kv_o1, kv_z1),
                                RAMP_UP_SEC)
            IN  /\ state' = c.state /\ direction' = c.direction
                /\ slow_mode_30' = c.slow
                /\ target_code' = c.target /\ ramp' = c.ramp
                /\ zp_dac_pulse' = c.zp_dac
                /\ logged' = <<msg>>
       ELSE /\ UNCHANGED <<state, direction, slow_mode_30, target_code, ramp,
                           zp_dac_pulse>>
            /\ logged' = <<>>
  /\ UNCHANGED <<position, uz1, uz2, stress, kv_o1, kv_o2, kv_z1, kv_z2,
                 dac_code, sample_timer, zp_adc_pulse, gt_flag, dt, cycles,
                 mid, elapsed, steps, sensorEvents, rampObs, quantObs, schedObs>>

\* GateSystem.press_open
press_open == Press("OPENING", 1, "press_open", TRUE, FALSE)

\* GateSystem.press_close
press_close == Press("CLOSING", -1, "press_close", FALSE, TRUE)

\* how many sensor changes a run of frame period dt explores
SensorBudget ==
  IF dt \in CoarseDt THEN MaxSensorEvents
  ELSE IF dt \in MidDt THEN MaxSensorEvents - 1
  ELSE 0

Sensor(name, newUz1, newUz2, newStress, msgs) ==
  /\ sensorEvents < SensorBudget
  /\ sensorEvents' = sensorEvents + 1
  /\ uz1' = newUz1 /\ uz2' = newUz2 /\ stress' = newStress
  /\ op' = name /\ logged' = msgs
  /\ UNCHANGED <<state, direction, position, ko, kz, kv_o1, kv_o2, kv_z1,
                 kv_z2, slow_mode_30, dac_code, target_code, ramp,
                 sample_timer, zp_adc_pulse, zp_dac_pulse, gt_flag, dt,
                 cycles, mid, elapsed, steps, presses, rampObs, quantObs, schedObs>>

\* main(): key 1 toggles the first obstacle sensor
toggle_uz1 == Sensor("toggle_uz1", ~uz1, uz2, stress, <<"uz1">>)

\* main(): key 2 toggles the second obstacle sensor
toggle_uz2 == Sensor("toggle_uz2", uz1, ~uz2, stress, <<"uz2">>)

\* main(): the up / down keys move the stress reading
set_stress ==
  \E s \in StressLevels :
    /\ s # stress
    /\ Sensor("set_stress", uz1, uz2, s, <<>>)

\* GateSystem.reset_sensors
reset_sensors == Sensor("reset_sensors", FALSE, FALSE, 0, <<"reset">>)

\* GateSystem.update(dt): the controller state before the first control cycle
\* (pulses reset, ramp advanced)
update_ramp ==
  IF ramp.active
    THEN LET ru == RampUpdate(ramp, dt)
         IN  [Ctl EXCEPT !.zp_adc = FALSE, !.zp_dac = FALSE,
                         !.ramp = ru.ramp, !.dac = ru.code]
    ELSE [Ctl EXCEPT !.zp_adc = FALSE, !.zp_dac = FALSE, !.dac = target_code]

\* the gate motion without the clamp of the position to 0 .. 1
update_position_unclamped(code) ==
  LET frac == clamp(code * DAC_VMAX, 0, (12 * DAC_MAX * U_NOM) \div 10)
  IN  IF state \in {"OPENING", "CLOSING"} /\ direction # 0
        THEN position + direction * frac * dt
        ELSE position

\* the gate motion with the sign of the direction lost
update_position_reversed(code) ==
  LET frac == clamp(code * DAC_VMAX, 0, (12 * DAC_MAX * U_NOM) \div 10)
  IN  IF state \in {"OPENING", "CLOSING"} /\ direction # 0
        THEN clamp(position - direction * frac * dt, 0, POS_ONE)
        ELSE position

\* GateSystem.update(dt): the gate motion
update_position(code) ==
  LET frac == clamp(code * DAC_VMAX, 0, (12 * DAC_MAX * U_NOM) \div 10)
  IN  IF state \in {"OPENING", "CLOSING"} /\ direction # 0
        THEN clamp(position + direction * frac * dt, 0, POS_ONE)
        ELSE position

\* the return to IDLE taken in STOPPED as well
to_idle_unlatched(c) ==
  c.direction = 0 /\ c.target = 0 /\ ~c.ramp.active

\* GateSystem.update(dt): the automatic return to IDLE after the control cycles
to_idle(c) ==
  c.state # "STOPPED" /\ c.direction = 0 /\ c.target = 0 /\ ~c.ramp.active

\* update_limits_from_position at position p, and the other sensor readings
\* a control cycle takes
readings(p) ==
  [us_or |-> uz1 \/ uz2, s |-> stress,
   o1 |-> p >= OPEN1_POS, o2 |-> p >= OPEN2_POS,
   z1 |-> p <= CLOSE1_POS, z2 |-> p <= CLOSE2_POS]

\* the sampling step run at most once per update, with the timer cleared
sample_drain_once(timer, n) ==
  IF timer >= SAMPLE_PERIOD THEN [n |-> n + 1, timer |-> 0]
  ELSE [n |-> n, timer |-> timer]

\* GateSystem.update(dt): the while loop that drains the sample timer in
\* chunks of SAMPLE_PERIOD; n counts the control cycles it runs
RECURSIVE sample_drain(_, _)
sample_drain(timer, n) ==
  IF timer >= SAMPLE_PERIOD THEN sample_drain(timer - SAMPLE_PERIOD, n + 1)
  ELSE [n |-> n, timer |-> timer]

\* GateSystem.update(dt)
update ==
  \E c0 \in {update_ramp} :
  \E pos1 \in {update_position(c0.dac)} :
  \E sd \in {sample_drain(sample_timer + dt, 0)} :
  \E n \in {sd.n} :
  \E tr \in {control_cycles(<<c0>>, n, readings(pos1))} :
  \E c \in {tr[Len(tr)]} :
    LET toIdle == to_idle(c)
        st2 == IF toIdle THEN "IDLE" ELSE c.state
        release == toIdle
                     \/ (st2 = "STOPPED" /\ c.target = 0 /\ ~c.ramp.active)
    IN  /\ position' = pos1
        /\ kv_o1' = readings(pos1).o1 /\ kv_o2' = readings(pos1).o2
        /\ kv_z1' = readings(pos1).z1 /\ kv_z2' = readings(pos1).z2
        /\ sample_timer' = sd.timer
        /\ state' = st2 /\ direction' = c.direction
        /\ slow_mode_30' = c.slow
        /\ dac_code' = c.dac /\ target_code' = c.target /\ ramp' = c.ramp
        /\ zp_adc_pulse' = c.zp_adc /\ zp_dac_pulse' = c.zp_dac
        /\ gt_flag' = c.gt
        /\ ko' = (IF release THEN FALSE ELSE ko)
        /\ kz' = (IF release THEN FALSE ELSE kz)
        /\ op' = "update" /\ logged' = c.log /\ cycles' = n
        /\ mid' = c0
        /\ IF elapsed < MaxTicks * dt
             THEN elapsed' = elapsed + dt /\ steps' = steps + n
             ELSE UNCHANGED <<elapsed, steps>>
        /\ UNCHANGED <<uz1, uz2, stress, dt, presses, sensorEvents, rampObs, quantObs, schedObs>>

Next ==
  \/ press_open
  \/ press_close
  \/ toggle_uz1
  \/ toggle_uz2
  \/ set_stress
  \/ reset_sensors
  \/ update

Spec == Init /\ [][Next]_vars

\* ------------------------------------------------------ a Ramp on its own
\* The arguments of the calls made on the Ramp: codes, requested durations
\* (one below the floor) and the dt of the update calls; update calls are
\* made until the summed dt passes MaxRampTime.
RampCodes == {0, 1, 10, 255}
RampDurations == {1, 2, 3, 8}
RampDts == {1, 2, 3}
MaxRampTime == 10

gateVars == <<state, direction, position, uz1, uz2, stress, ko, kz,
              kv_o1, kv_o2, kv_z1, kv_z2, slow_mode_30, dac_code, target_code,
              sample_timer, zp_adc_pulse, zp_dac_pulse, gt_flag,
              dt, logged, cycles, mid, elapsed, steps, presses, sensorEvents>>

\* Ramp(): the object as constructed
RampSpecInit == Init /\ dt = 1

\* Ramp.start(from, to, duration), called once
ramp_start ==
  /\ ramp_req.duration = 0
  /\ \E from \in RampCodes, to \in RampCodes, d \in RampDurations :
       /\ ramp' = Ramp_start(from, to, d)
       /\ ramp_req' = [from |-> from, to |-> to, duration |-> d]
  /\ ramp_cum' = 0
  /\ op' = "ramp_start"
  /\ UNCHANGED <<gateVars, quantObs, schedObs, ramp_ret>>

\* Ramp.update(d)
ramp_update ==
  /\ ramp_cum <= MaxRampTime
  /\ \E d \in RampDts :
       \E ru \in {Ramp_update(ramp, d)} :
         /\ ramp' = ru.ramp
         /\ ramp_ret' = [code |-> ru.code, done |-> ru.done]
         /\ ramp_cum' = (IF ramp_req.duration > 0 THEN ramp_cum + d ELSE 0)
  /\ op' = "ramp_update"
  /\ UNCHANGED <<gateVars, quantObs, schedObs, ramp_req>>

RampNext == ramp_start \/ ramp_update

RampSpec == RampSpecInit /\ [][RampNext]_vars

\* --------------------------------------------- the force quantizer on its own
\* the voltages tried: below zero, the first codes, and around ADC_VREF
QuantVolts ==
  {-ADC_VREF, -1} \cup (0 .. 40) \cup ((ADC_VREF - 40) .. (ADC_VREF + 20))
    \cup {2 * ADC_VREF}

QuantInit == Init /\ dt = 1

\* adc_code_from_voltage(u); the previous call is kept for comparison
quantize ==
  /\ \E u \in QuantVolts :
       /\ quant_u' = <<quant_u[2], u>>
       /\ quant_code' = <<quant_code[2], adc_code_from_voltage(u)>>
  /\ op' = "adc_code_from_voltage"
  /\ UNCHANGED <<gateVars, ramp, rampObs, schedObs>>

QuantSpec == QuantInit /\ [][quantize]_vars

\* ------------------------------------------------------------ the move planner
\* Tasks are named by their IRI; the IRIs are numbered in the order of their
\* strings.  Days are whole numbers, the Decimal fields are in tenths of a day.
TaskIris == 1 .. 4

\* the largest number of depends_on links the ontology holds
MaxDeps == 3

\* Task.base_days, per_item_days, per_fragile_days and intl_extra_days of the
\* four tasks
base_days == <<0, 1, 2, 1>>
per_item_days == <<0, 1, 0, 5>>
per_fragile_days == <<0, 0, 5, 0>>
intl_extra_days == <<0, 2, 0, 1>>

\* the lists select_tasks can return: the values of a dict keyed by IRI, so no
\* IRI twice, in the order the query gave them
PickedLists ==
  {s \in UNION {[1 .. n -> TaskIris] : n \in 0 .. Cardinality(TaskIris)} :
     \A i \in DOMAIN s, j \in DOMAIN s : i # j => s[i] # s[j]}

\* the depends_on links query_tasks can read: a set of (task, dependency)
\* triples, a task may name itself or a task that is not picked
DependsOnSets ==
  {E \in SUBSET (TaskIris \X TaskIris) : Cardinality(E) <= MaxDeps}

\* the requests tried: n_items, fragile_count and move_type of the form
Requests ==
  {[n_items |-> 0, fragile_count |-> 0, move_type |-> "DOMESTIC_RU"],
   [n_items |-> 25, fragile_count |-> 8, move_type |-> "INTERNATIONAL"]}

Range(s) == {s[i] : i \in DOMAIN s}
Pos(s, x) == CHOOSE i \in DOMAIN s : s[i] = x
Max(S) == CHOOSE m \in S : \A x \in S : x <= m

\* queue.sort()
Sorted(q) == SortSeq(q, LAMBDA a, b : a < b)

\* topo_sort: indeg as built by the first loop (dependencies that are not in
\* the list are skipped)
indeg0(tasks, deps) ==
  [t \in Range(tasks) |-> Cardinality(deps[t] \cap Range(tasks))]

\* topo_sort: adj[iri], the tasks that depend on iri, in the order of the list
adj(tasks, deps, iri) == SelectSeq(tasks, LAMBDA t : iri \in deps[t])

\* topo_sort (src/last/app.py): the while loop, the queue kept sorted
RECURSIVE topo_loop(_, _, _, _, _)
topo_loop(tasks, deps, queue, indeg, ordered) ==
  IF queue = <<>> THEN ordered
  ELSE LET iri == Head(queue)
           indeg2 == [t \in DOMAIN indeg |->
                        IF iri \in deps[t] THEN indeg[t] - 1 ELSE indeg[t]]
           ready == SelectSeq(adj(tasks, deps, iri), LAMBDA t : indeg2[t] = 0)
       IN  topo_loop(tasks, deps, Sorted(Tail(queue) \o ready), indeg2,
                     Append(ordered, iri))

\* topo_sort (src/app.py): the while loop, the queue in arrival order
RECURSIVE topo_loop_v1(_, _, _, _, _)
topo_loop_v1(tasks, deps, queue, indeg, ordered) ==
  IF queue = <<>> THEN ordered
  ELSE LET iri == Head(queue)
           indeg2 == [t \in DOMAIN indeg |->
                        IF iri \in deps[t] THEN indeg[t] - 1 ELSE indeg[t]]
           ready == SelectSeq(adj(tasks, deps, iri), LAMBDA t : indeg2[t] = 0)
       IN  topo_loop_v1(tasks, deps, Tail(queue) \o ready, indeg2,
                        Append(ordered, iri))

\* topo_sort: the tasks the loop never reached are appended in list order
with_remaining(tasks, ordered) ==
  IF Len(ordered) # Len(tasks)
    THEN ordered \o SelectSeq(tasks, LAMBDA i : i \notin Range(ordered))
    ELSE ordered

\* topo_sort without the tasks the loop never reached
topo_sort_drops_remaining(tasks, deps) ==
  LET indeg == indeg0(tasks, deps)
  IN  topo_loop(tasks, deps,
                Sorted(SelectSeq(tasks, LAMBDA t : indeg[t] = 0)), indeg, <<>>)

\* topo_sort of src/last/app.py
topo_sort(tasks, deps) ==
  LET indeg == indeg0(tasks, deps)
  IN  with_remaining(tasks,
        topo_loop(tasks, deps,
                  Sorted(SelectSeq(tasks, LAMBDA t : indeg[t] = 0)),
                  indeg, <<>>))

\* topo_sort of src/app.py
topo_sort_v1(tasks, deps) ==
  LET indeg == indeg0(tasks, deps)
  IN  with_remaining(tasks,
        topo_loop_v1(tasks, deps, SelectSeq(tasks, LAMBDA t : indeg[t] = 0),
                     indeg, <<>>))

\* ceil_decimal(d), d in tenths
ceil_decimal(d) ==
  LET i == d \div 10 IN IF d = 10 * i THEN i ELSE i + 1

\* task_duration_days
task_duration_days(t, n_items, fragile_count, move_type) ==
  LET d == 10 * base_days[t] + per_item_days[t] * n_items
             + per_fragile_days[t] * fragile_count
             + (IF move_type = "INTERNATIONAL"
                  THEN 10 * intl_extra_days[t] ELSE 0)
      c == ceil_decimal(d)
  IN  IF c > 1 THEN c ELSE 1

\* build_schedule_cp: the first loop from the i-th task on; cp maps the tasks
\* done so far to their es, ef and dur.  ef[d] of a dependency that has no
\* entry yet raises KeyError.
RECURSIVE cp_loop(_, _, _, _, _)
cp_loop(ordered_list, deps, rq, i, cp) ==
  IF i > Len(ordered_list) THEN [status |-> "ok", cp |-> cp]
  ELSE LET t == ordered_list[i]
           ds == deps[t] \cap Range(ordered_list)
       IN  IF \E d \in ds : d \notin DOMAIN cp
             THEN [status |-> "KeyError"]
             ELSE LET es_day == IF ds = {} THEN 0
                                ELSE Max({cp[d].ef : d \in ds})
                      d == task_duration_days(t, rq.n_items, rq.fragile_count,
                                              rq.move_type)
                  IN  cp_loop(ordered_list, deps, rq, i + 1,
                              (t :> [es |-> es_day, ef |-> es_day + d,
                                     dur |-> d]) @@ cp)

\* build_schedule_cp: scale_buf + fragile_buf + intl_buf
buffer_days(rq) ==
  (IF rq.n_items >= 40 THEN 7
   ELSE IF rq.n_items >= 25 THEN 5
   ELSE IF rq.n_items >= 15 THEN 3 ELSE 0)
  + (IF rq.fragile_count >= 15 THEN 3
     ELSE IF rq.fragile_count >= 8 THEN 2
     ELSE IF rq.fragile_count >= 4 THEN 1 ELSE 0)
  + (IF rq.move_type = "INTERNATIONAL" THEN 10 ELSE 2)

\* build_schedule_cp; dates are counted in days from `start`.  The plan is
\* the list sorted by es, tasks with equal es in the order of the list.
build_schedule_cp(ordered_list, deps, rq) ==
  LET r == cp_loop(ordered_list, deps, rq, 1, <<>>)
  IN  IF r.status # "ok" THEN r
      ELSE LET cp == r.cp
               project_days == IF DOMAIN cp = {} THEN 0
                               ELSE Max({cp[t].ef : t \in DOMAIN cp})
               by_es == SortSeq(ordered_list,
                          LAMBDA a, b :
                            \/ cp[a].es < cp[b].es
                            \/ /\ cp[a].es = cp[b].es
                               /\ Pos(ordered_list, a) < Pos(ordered_list, b))
           IN  [status |-> "ok",
                plan |-> [k \in DOMAIN by_es |->
                            [task |-> by_es[k],
                             start |-> cp[by_es[k]].es,
                             end |-> cp[by_es[k]].ef,
                             days |-> cp[by_es[k]].dur,
                             deps |-> deps[by_es[k]] \cap Range(ordered_list)]],
                move_date |-> project_days + buffer_days(rq),
                project_days |-> project_days,
                buffer_days |-> buffer_days(rq)]

\* the depends_on fields for a set of links
DependsOn(E) == [t \in TaskIris |-> {d \in TaskIris : <<t, d>> \in E}]

\* recommend() of src/last/app.py: the picked tasks are sorted and scheduled;
\* an exception ends the request
recommend ==
  /\ op = "init"
  /\ \E tasks \in PickedLists, E \in DependsOnSets, rq \in Requests :
       \E ord \in {topo_sort(tasks, DependsOn(E))} :
         /\ picked_tasks' = tasks
         /\ depends_on' = DependsOn(E)
         /\ request' = rq
         /\ ordered_tasks' = ord
         /\ schedule' = build_schedule_cp(ord, DependsOn(E), rq)
  /\ op' = "recommend"
  /\ UNCHANGED <<gateVars, ramp, rampObs, quantObs>>

\* recommend() of src/app.py, as far as its call of topo_sort
recommend_v1 ==
  /\ op = "init"
  /\ \E tasks \in PickedLists, E \in DependsOnSets :
       /\ picked_tasks' = tasks
       /\ depends_on' = DependsOn(E)
       /\ ordered_tasks' = topo_sort_v1(tasks, DependsOn(E))
  /\ op' = "recommend_v1"
  /\ UNCHANGED <<gateVars, ramp, rampObs, quantObs, request, schedule>>

SchedInit == Init /\ dt = 1

SchedNext == recommend \/ recommend_v1

SchedSpec == SchedInit /\ [][SchedNext]_vars

\* main() calls update once per frame, for ever
SpecFair == Spec /\ WF_vars(update)

\* ------------------------------------------------- control cycles of a tick
Moving == {"OPENING", "CLOSING"}

\* The control cycles of the last update: the controller state before the
\* first cycle and after each cycle.  The readings are those of the current
\* state: update leaves the sensors as they are and the limit switches are
\* the ones it has just computed.
CycleTrace ==
  IF op = "update" THEN control_cycles(<<mid>>, cycles, readings(position))
  ELSE <<mid>>

\* the messages a cycle logged, given the states before and after it
CycleLog(pre, post) == SubSeq(post.log, Len(pre.log) + 1, Len(post.log))

\* P(pre, post) holds of every control cycle of the last update
AllCycles(P(_, _)) ==
  \A tr \in {CycleTrace} : \A k \in 1 .. Len(tr) - 1 : P(tr[k], tr[k + 1])

\* ------------------------------------------------------------------- claims
\* C1: a control cycle in OPENING or CLOSING with an obstacle asserted and
\* stress >= F_critical at the same time ends in STOPPED, and the one
\* emergency event the update logs names the obstacle, never the force.
C1_cycle(pre, post) ==
  (pre.state \in Moving /\ (uz1 \/ uz2) /\ stress >= TH_95)
    => /\ post.state = "STOPPED"
       /\ CycleLog(pre, post) = <<"emergency_obstacle">>
C1_ObstacleBeforeForce ==
  /\ AllCycles(C1_cycle)
  /\ (op = "update" /\ cycles > 0 /\ mid.state \in Moving
        /\ (uz1 \/ uz2) /\ stress >= TH_95)
       => /\ state = "STOPPED"
          /\ logged = <<"emergency_obstacle">>
C1_Witness ==
  /\ op = "update" /\ cycles > 0 /\ mid.state \in Moving
  /\ (uz1 \/ uz2) /\ stress >= TH_95
  /\ state = "STOPPED"

\* C2: STOPPED is latched: a step that leaves STOPPED is a press_open or a
\* press_close; no update, obstacle toggle, stress change or reset_sensors
\* changes the state once it is STOPPED.
C2_StoppedLatched ==
  [][state = "STOPPED" /\ state' # "STOPPED"
       => op' \in {"press_open", "press_close"}]_vars
C2_Witness ==
  /\ op = "update" /\ cycles > 0 /\ mid.state = "STOPPED"
  /\ state = "STOPPED" /\ ~(uz1 \/ uz2) /\ stress < TH_95
  /\ target_code = 0 /\ ~ramp.active

\* C3: every control cycle in OPENING or CLOSING with an obstacle asserted or
\* with stress >= F_critical ends with state STOPPED, direction none, slow
\* mode false and target code 0, with a ramp to 0 of duration T_decel in
\* progress or the commanded code already 0.
C3_stopped(c) ==
  /\ c.state = "STOPPED" /\ c.direction = 0 /\ ~c.slow /\ c.target = 0
  /\ c.ramp.end_code = 0
  /\ \/ c.ramp.active /\ c.ramp.duration = RAMP_DOWN_SEC
     \/ ~c.ramp.active /\ c.dac = 0
C3_cycle(pre, post) ==
  (pre.state \in Moving /\ ((uz1 \/ uz2) \/ stress >= TH_95))
    => C3_stopped(post)
C3_EmergencyStop ==
  /\ AllCycles(C3_cycle)
  /\ (op = "update" /\ cycles > 0 /\ mid.state \in Moving
        /\ ((uz1 \/ uz2) \/ stress >= TH_95))
       => C3_stopped(Ctl)
C3_Witness ==
  /\ op = "update" /\ cycles > 0 /\ mid.state \in Moving /\ mid.slow
  /\ mid.dac > 0
  /\ stress >= TH_95 /\ ~(uz1 \/ uz2)
  /\ state = "STOPPED" /\ ramp.active

\* the limit switches of the travel direction of controller state c
Limit1(c) == IF c.state = "OPENING" THEN kv_o1 ELSE kv_z1
Limit2(c) == IF c.state = "OPENING" THEN kv_o2 ELSE kv_z2

\* a cycle in motion whose obstacle, force and slow-mode rules do not match,
\* so that it reaches the limit-switch rules
ReachesLimitRules(c) ==
  /\ c.state \in Moving /\ ~(uz1 \/ uz2) /\ stress < TH_70
  /\ ~slow_exit(c, stress)

IsPress == op' \in {"press_open", "press_close"}

\* C4 (as stated): when a control cycle in OPENING observes limitOpen2 (in
\* CLOSING limitClose2) with no obstacle and stress below F_slowOn, the state
\* after that cycle is IDLE, and a button press at any later moment, also
\* while the ramp to 0 is running, is accepted and starts motion.
C4_LimitCycleSeen ==
  /\ op = "update"
  /\ \E tr \in {CycleTrace} : \E k \in 1 .. Len(tr) - 1 :
       ReachesLimitRules(tr[k]) /\ Limit2(tr[k])
C4_Original ==
  [][/\ C4_LimitCycleSeen' => state' = "IDLE"
     /\ (IsPress /\ state \in Moving /\ direction = 0)
          => (state' \in Moving /\ direction' # 0)]_vars

\* C4 (amended): when a control cycle in OPENING observes limitOpen2 (in
\* CLOSING limitClose2) with no obstacle and stress below F_slowOn, the state
\* after that cycle is still OPENING (CLOSING), with direction none, slow
\* mode off, target 0 and a ramp to 0 active; the state becomes IDLE only at
\* the end of an update that leaves no ramp active; a button press is ignored
\* as long as the state is OPENING or CLOSING and is accepted, starting
\* motion, once the state is IDLE.
C4_cycle(pre, post) ==
  (ReachesLimitRules(pre) /\ Limit2(pre))
    => /\ post.state = pre.state /\ post.direction = 0 /\ ~post.slow
       /\ post.target = 0 /\ post.ramp.active /\ post.ramp.end_code = 0
C4_cycles == AllCycles(C4_cycle)
C4_LimitStopThenIdle ==
  [][/\ C4_cycles'
     /\ C4_LimitCycleSeen' => (state' \in Moving /\ ramp'.active)
     /\ (state # "IDLE" /\ state' = "IDLE")
          => (op' = "update" /\ ~ramp'.active /\ direction' = 0
                /\ target_code' = 0)
     /\ (IsPress /\ state \in Moving)
          => UNCHANGED <<state, direction, slow_mode_30, target_code, ramp,
                         dac_code, zp_dac_pulse>>
     /\ (IsPress /\ state = "IDLE")
          => /\ state' = (IF op' = "press_open" THEN "OPENING" ELSE "CLOSING")
             /\ direction' = (IF op' = "press_open" THEN 1 ELSE -1)
             /\ ramp'.active /\ target_code' > 0]_vars
\* a close press accepted in the IDLE state entered after a full opening
C4_Witness ==
  /\ op = "press_close" /\ state = "CLOSING" /\ direction = -1
  /\ position = POS_ONE /\ kv_o2
  /\ mid.state = "OPENING" /\ mid.direction = 0 /\ ~mid.ramp.active
  /\ cycles = 0

\* C5: from a state in OPENING with limitOpen2 asserted (CLOSING with
\* limitClose2), with no obstacle, stress below F_slowOn, no further button
\* press and update called for ever, the controller eventually is in IDLE
\* with commanded code 0 and no active ramp, whatever the frame period.
C5_Quiet ==
  /\ presses = MaxPresses
  /\ (dt \in FineDt \/ sensorEvents = MaxSensorEvents)
  /\ ~(uz1 \/ uz2) /\ stress < TH_70
C5_FullTravelReachesIdle ==
  (state \in Moving /\ Limit2(Ctl) /\ C5_Quiet)
    ~> (state = "IDLE" /\ dac_code = 0 /\ ~ramp.active)

\* C6 (as stated): in a control cycle in motion that reaches the limit rules
\* with both the limit-1 deceleration condition and limit switch 2 holding,
\* the limit-1 deceleration is taken (new target half-nominal).
C6_Both(c) ==
  /\ ReachesLimitRules(c)
  /\ Limit1(c) /\ ~c.slow /\ c.target > CODE_HALF /\ Limit2(c)
C6_orig_cycle(pre, post) ==
  C6_Both(pre) => (post.target = CODE_HALF /\ post.direction = pre.direction)
C6_Original == AllCycles(C6_orig_cycle)

\* C6 (amended): in a control cycle in motion that reaches the limit rules
\* with both the limit-1 deceleration condition and limit switch 2 holding,
\* the limit-2 full stop is taken (direction none, target 0, ramp to 0 over
\* T_decel, one limit-2 event logged), not the limit-1 deceleration.
C6_cycle(pre, post) ==
  C6_Both(pre)
    => /\ post.target = 0 /\ post.direction = 0
       /\ post.ramp = RampStart(pre.dac, 0, RAMP_DOWN_SEC)
       /\ CycleLog(pre, post)
            = <<IF pre.state = "OPENING" THEN "kv_o2" ELSE "kv_z2">>
C6_Limit2BeforeLimit1 == AllCycles(C6_cycle)
C6_Witness ==
  /\ op = "update" /\ cycles > 0 /\ C6_Both(mid)
  /\ mid.state = "CLOSING"
  /\ target_code = 0 /\ direction = 0

\* C7: in every control cycle in OPENING with limitOpen2 asserted (CLOSING
\* with limitClose2), no obstacle, stress below F_critical and slow mode
\* already true, the installed target after the cycle is 0.
C7_cycle(pre, post) ==
  (pre.state \in Moving /\ Limit2(pre) /\ ~(uz1 \/ uz2) /\ stress < TH_95
     /\ pre.slow)
    => post.target = 0
C7_LimitStopNotMasked == AllCycles(C7_cycle)

\* C8 (as stated): while the state remains OPENING or CLOSING, slow mode
\* becomes true at a control cycle with stress >= F_slowOn, stays true at
\* every later control cycle with stress >= F_slowOff, and changes from true
\* to false only at a control cycle with stress < F_slowOff.
C8_Enter ==
  /\ (~slow_mode_30 /\ slow_mode_30')
       => (op' = "update" /\ cycles' > 0 /\ stress >= TH_70)
  /\ (op' = "update" /\ cycles' > 0 /\ state \in Moving /\ ~(uz1 \/ uz2)
        /\ stress >= TH_70 /\ stress < TH_95)
       => (slow_mode_30' /\ state' = state)
C8_Original ==
  [][/\ C8_Enter
     /\ (slow_mode_30 /\ state' \in Moving /\ stress' >= TH_55)
          => slow_mode_30'
     /\ (slow_mode_30 /\ ~slow_mode_30' /\ state' \in Moving)
          => (op' = "update" /\ cycles' > 0 /\ stress < TH_55)]_vars

\* C8 (amended): while the state remains OPENING or CLOSING and no
\* limit-switch-2 stop is made (the direction stays set), slow mode becomes
\* true at a control cycle with stress >= F_slowOn, stays true at every
\* later control cycle with stress >= F_slowOff, and changes from true to
\* false only at a control cycle with stress < F_slowOff; the limit-2 stop
\* clears slow mode at any stress below F_slowOn.
C8_Hysteresis ==
  [][/\ C8_Enter
     /\ (slow_mode_30 /\ direction' # 0 /\ stress' >= TH_55)
          => slow_mode_30'
     /\ (slow_mode_30 /\ ~slow_mode_30' /\ state' \in Moving)
          => /\ op' = "update" /\ cycles' > 0
             /\ \/ stress < TH_55
                \/ direction' = 0 /\ Limit2(Ctl)' /\ stress < TH_70]_vars
\* slow mode kept by a control cycle with the stress between the thresholds
C8_Witness ==
  /\ op = "update" /\ cycles > 0 /\ mid.slow /\ slow_mode_30
  /\ stress >= TH_55 /\ stress < TH_70 /\ direction # 0

\* C9: the limit-1 ramp to half-nominal is armed only in a cycle where the
\* installed target exceeds half-nominal, at most once per update; after a
\* cycle has sensed limit switch 1 the target is at most half-nominal, and
\* an update that senses the same switch again with no obstacle, force or
\* button event arms no ramp and leaves target and ramp as they are.
C9_cycle(pre, post) ==
  \A msg \in {"kv_o1", "kv_z1"} :
    (\E i \in 1 .. Len(CycleLog(pre, post)) : CycleLog(pre, post)[i] = msg)
      => /\ CycleLog(pre, post) = <<msg>>
         /\ pre.state = (IF msg = "kv_o1" THEN "OPENING" ELSE "CLOSING")
         /\ Limit1(pre) /\ ~Limit2(pre)
         /\ pre.target > CODE_HALF /\ ~pre.slow
         /\ post.target = CODE_HALF
         /\ post.ramp = RampStart(pre.dac, CODE_HALF, RAMP_DOWN_SEC)
C9_Count(msg) == Cardinality({i \in 1 .. Len(logged) : logged[i] = msg})
C9_state ==
  /\ AllCycles(C9_cycle)
  /\ C9_Count("kv_o1") <= 1 /\ C9_Count("kv_z1") <= 1
  /\ (op = "update" /\ cycles > 0 /\ state \in Moving /\ direction # 0
        /\ Limit1(Ctl))
       => target_code <= CODE_HALF
C9_OneShotDeceleration ==
  [][/\ C9_state'
     /\ (op' = "update" /\ ReachesLimitRules(Ctl) /\ Limit1(Ctl)
           /\ target_code <= CODE_HALF /\ ~Limit2(Ctl)')
          => /\ target_code' = target_code
             /\ ~zp_dac_pulse' /\ logged' = <<>>
             /\ ramp'.start_code = ramp.start_code
             /\ ramp'.end_code = ramp.end_code
             /\ ramp'.duration = ramp.duration
             /\ ramp'.t = (IF ramp.active THEN ramp.t + dt ELSE ramp.t)]_vars
\* an update that senses the first limit switch after the ramp to
\* half-nominal was armed and has run out
C9_Witness ==
  /\ op = "update" /\ cycles > 0 /\ state \in Moving /\ direction # 0
  /\ Limit1(Ctl) /\ ~Limit2(Ctl) /\ ~mid.slow /\ ~slow_mode_30
  /\ mid.target = CODE_HALF /\ target_code = CODE_HALF
  /\ ramp.end_code = CODE_HALF /\ ramp.duration = RAMP_DOWN_SEC
  /\ ~ramp.active /\ dac_code = CODE_HALF /\ logged = <<>>

\* C10: the control cycle that leaves slow mode (slow mode true, stress below
\* F_slowOff) installs the half-nominal target if the first limit switch of
\* the travel direction is asserted and the nominal target otherwise, with a
\* ramp of duration T_accel.
C10_cycle(pre, post) ==
  (pre.state \in Moving /\ ~(uz1 \/ uz2) /\ stress < TH_55 /\ pre.slow)
    => /\ ~post.slow /\ post.state = pre.state
       /\ post.target = (IF Limit1(pre) THEN CODE_HALF ELSE CODE_NOM)
       /\ post.ramp = RampStart(pre.dac, post.target, RAMP_UP_SEC)
       /\ post.zp_dac
C10_SlowRecoveryTarget == AllCycles(C10_cycle)
C10_Witness ==
  /\ op = "update" /\ cycles > 0 /\ mid.slow /\ mid.state = "OPENING"
  /\ stress < TH_55 /\ ~(uz1 \/ uz2)
  /\ kv_o1 /\ ~kv_o2 /\ target_code = CODE_HALF
  /\ ramp.duration = RAMP_UP_SEC /\ ~slow_mode_30

\* C11: a button press while the state is OPENING or CLOSING (either button)
\* leaves state, direction, slow mode, installed target, the ramp (active,
\* start, end, duration, elapsed time) and the commanded code unchanged and
\* logs no event.
C11_PressInMotionNoOp ==
  [][(op' \in {"press_open", "press_close"} /\ state \in Moving)
       => /\ state' = state /\ direction' = direction
          /\ slow_mode_30' = slow_mode_30 /\ target_code' = target_code
          /\ ramp' = ramp /\ dac_code' = dac_code
          /\ logged' = <<>>]_vars
\* a close press made while the gate is opening with its ramp running
C11_Witness ==
  /\ op = "press_close" /\ state = "OPENING" /\ direction = 1
  /\ ramp.active /\ ramp.t > 0 /\ dac_code > 0 /\ logged = <<>>

\* C12: no snapping: whenever a new ramp is installed (by a button press, an
\* emergency stop, slow-mode entry or exit, or a limit switch) its start value
\* is the commanded code of that moment and its elapsed time is 0, and the
\* commanded code right after the arming equals the code right before it.
C12_cycle(pre, post) ==
  (post.ramp # pre.ramp)
    => /\ post.ramp.active /\ post.ramp.t = 0
       /\ post.ramp.start_code = pre.dac
       /\ post.dac = pre.dac
C12_cycles == AllCycles(C12_cycle)
C12_NoSnap ==
  [][/\ C12_cycles'
     /\ (IsPress /\ ramp' # ramp)
          => /\ ramp'.active /\ ramp'.t = 0
             /\ ramp'.start_code = dac_code
             /\ dac_code' = dac_code
     /\ (ramp'.active /\ ramp'.t = 0) => ramp'.start_code = dac_code']_vars
\* a control cycle arms a new ramp while an earlier ramp is half way
C12_Witness ==
  /\ op = "update" /\ zp_dac_pulse /\ mid.ramp.active
  /\ ramp.active /\ ramp.t = 0 /\ ramp # mid.ramp
  /\ ramp.start_code = dac_code
  /\ dac_code \notin {0, mid.target, target_code, mid.ramp.start_code}

\* C13: in every reachable state, and after every control cycle, the
\* direction is open or close only if the state is OPENING or CLOSING; in
\* IDLE and STOPPED the direction is none.
C13_cycle(pre, post) == post.state \notin Moving => post.direction = 0
C13_DirectionOnlyInMotion ==
  /\ state \in {"IDLE", "STOPPED"} => direction = 0
  /\ direction \in {1, -1} => state \in Moving
  /\ AllCycles(C13_cycle)
\* an emergency stop taken while the gate was moving
C13_Witness ==
  /\ op = "update" /\ cycles > 0 /\ mid.state \in Moving
  /\ mid.direction # 0 /\ state = "STOPPED" /\ direction = 0

\* the code Ramp.update computes for ramp r at its elapsed time
RampValue(r) == RampUpdate(r, 0).code

\* C14: in every reachable state, if no ramp is active the commanded code
\* equals the installed target code, and if a ramp is active its end value
\* equals the installed target code and the commanded code equals the ramp's
\* interpolated value at its elapsed time.
C14_CommandedFollowsRamp ==
  IF ramp.active
    THEN /\ ramp.end_code = target_code
         /\ dac_code = RampValue(ramp)
    ELSE dac_code = target_code
\* a ramp to the half-nominal target, on its way down from a code the
\* acceleration had reached
C14_Witness ==
  /\ op = "update" /\ ramp.active /\ ramp.t > 0 /\ ramp.t < ramp.duration
  /\ target_code = CODE_HALF /\ ramp.duration = RAMP_DOWN_SEC
  /\ dac_code > CODE_HALF /\ dac_code < ramp.start_code

\* a control cycle of the last update armed a ramp
ArmedInCycle ==
  /\ op = "update"
  /\ \E tr \in {CycleTrace} : \E k \in 1 .. Len(tr) - 1 :
       tr[k + 1].ramp # tr[k].ramp
\* the last operation was a button press that started motion and armed a ramp
ArmedByPress == op \in {"press_open", "press_close"} /\ logged # <<>>

\* C15: every arming of a ramp, by press_open/press_close or inside a control
\* cycle, makes bit 14 of the output word 1 in the word update returns for the
\* tick of the arming (the update that follows the press, or the update whose
\* cycle armed), and bit 14 is 0 in the word of a tick with no arming.
C15_RampArmedPulse ==
  [][op' = "update"
       => (Bit(port301', 14) = 1 <=> (ArmedInCycle' \/ ArmedByPress))]_vars

\* C16 (as stated): the output word update returns equals commandedCode
\* + 2^8*[direction = Open] + 2^14*[ramp armed this tick]
\* + 2^15*[sample taken this tick], with the code in 0..255 and bits 9..13
\* equal to 0.
C16_Original ==
  [][op' = "update"
       => /\ port301' = dac_code' + B(direction' = 1) * 2 ^ 8
                          + B(ArmedInCycle' \/ ArmedByPress) * 2 ^ 14
                          + B(cycles' > 0) * 2 ^ 15
          /\ dac_code' \in 0 .. 255
          /\ \A i \in 9 .. 13 : Bit(port301', i) = 0]_vars

\* C16 (amended): the output word update returns equals commandedCode
\* + 2^14*[a control cycle of this tick armed a ramp]
\* + 2^15*[sample taken this tick], with the code in 0..255 and bits 8..13
\* equal to 0 whatever the direction: the word carries no direction bit.
C16_OutputWord ==
  op = "update"
    => /\ port301 = dac_code + B(ArmedInCycle) * 2 ^ 14
                       + B(cycles > 0) * 2 ^ 15
       /\ dac_code \in 0 .. 255
       /\ port301 % 256 = dac_code
       /\ \A i \in 8 .. 13 : Bit(port301, i) = 0
\* the word of a tick in which the gate is opening under voltage
C16_Witness ==
  /\ op = "update" /\ state = "OPENING" /\ direction = 1
  /\ dac_code > 0 /\ cycles > 0 /\ Bit(port301, 8) = 0
  /\ Bit(port301, 15) = 1

\* C17: the input word update returns has bits 0..7 = the quantized force
\* code, bit 8 = limitOpen1, bit 9 = limitOpen2, bit 10 = limitClose1,
\* bit 11 = limitClose2, bit 12 = obstacle1 or obstacle2, bit 13 = open
\* button held, bit 14 = close button held, bit 15 = ready flag, and the
\* force code stays below 2^8.
C17_InputWord ==
  /\ adc_code_from_stress(stress) \in 0 .. 255
  /\ \A s \in StressLevels \cup {TENSO_MAX, 4 * TENSO_MAX} :
       adc_code_from_stress(s) \in 0 .. 255
  /\ port300 % 256 = adc_code_from_stress(stress)
  /\ Bit(port300, 8) = B(kv_o1) /\ Bit(port300, 9) = B(kv_o2)
  /\ Bit(port300, 10) = B(kv_z1) /\ Bit(port300, 11) = B(kv_z2)
  /\ Bit(port300, 12) = B(uz1 \/ uz2)
  /\ Bit(port300, 13) = B(ko) /\ Bit(port300, 14) = B(kz)
  /\ Bit(port300, 15) = B(gt_flag)
  /\ port300 \in 0 .. 2 ^ 16 - 1
\* the word of a tick with a force reading, an obstacle, the open button held
\* and the first open limit switch reached
C17_Witness ==
  /\ op = "update" /\ stress = 72 /\ (uz1 \/ uz2) /\ ko /\ ~kz
  /\ kv_o1 /\ ~kv_o2 /\ ~kv_z1
  /\ port300 % 256 = 118

\* C18: fixed-period sampling accumulator: over the update calls totalled,
\* the number of control_step invocations is floor(sum of dt / SAMPLE_PERIOD)
\* and the residual sample_timer is the remainder; every update runs
\* floor((timer + dt) / SAMPLE_PERIOD) control cycles (none, one or several)
\* and leaves the rest in the timer, which is always in [0, SAMPLE_PERIOD);
\* bit 15 of the output word is 1 exactly when at least one cycle ran.
C18_SamplingAccumulator ==
  [][op' = "update"
       => /\ steps' = elapsed' \div SAMPLE_PERIOD
          /\ elapsed' < MaxTicks * dt => sample_timer' = elapsed' % SAMPLE_PERIOD
          /\ elapsed < MaxTicks * dt
               => (elapsed' = elapsed + dt /\ steps' = steps + cycles')
          /\ cycles' = (sample_timer + dt) \div SAMPLE_PERIOD
          /\ sample_timer' = (sample_timer + dt) % SAMPLE_PERIOD
          /\ sample_timer' \in 0 .. SAMPLE_PERIOD - 1
          /\ Bit(port301', 15) = 1 <=> cycles' >= 1
          /\ cycles' >= 1 <=> mid'.zp_adc # zp_adc_pulse']_vars
\* an update that runs no control cycle after an earlier one has run one
C18_Witness ==
  /\ op = "update" /\ cycles = 0 /\ steps = 1 /\ elapsed > SAMPLE_PERIOD
  /\ elapsed < MaxTicks * dt
  /\ sample_timer > 0 /\ Bit(port301, 15) = 0
\* an update that runs several control cycles
C18_WitnessSeveral ==
  /\ op = "update" /\ cycles > 1 /\ steps > cycles
  /\ Bit(port301, 15) = 1

\* the Ramp has been started and the step is an update call on it
RampCall == op' = "ramp_update" /\ ramp_req.duration > 0
\* the call at which the summed dt reaches the duration D
Reaches(D) == ramp_cum < D /\ ramp_cum' >= D

\* C19 (as stated): for every ramp started with (from, to, duration > 0) the
\* first update call at which the summed dt reaches the duration returns
\* value = to with justCompleted true; every earlier and every later call
\* returns justCompleted false, and every later call returns value = to.
C19_Original ==
  [][RampCall
       => /\ Reaches(ramp_req.duration)
               => (ramp_ret'.done /\ ramp_ret'.code = ramp_req.to)
          /\ ~Reaches(ramp_req.duration) => ~ramp_ret'.done
          /\ ramp_cum >= ramp_req.duration
               => ramp_ret'.code = ramp_req.to]_vars

\* C19 (amended): a requested duration below the floor of 1e-6 s is replaced
\* by the floor; for every ramp started with (from, to, duration > 0) the
\* first update call at which the summed dt reaches max(duration, floor)
\* returns value = to with justCompleted true; every earlier and every later
\* call returns justCompleted false, and every later call returns value = to.
C19_RampCompletion ==
  [][RampCall
       => /\ ramp.duration = (IF ramp_req.duration < MIN_DURATION
                                THEN MIN_DURATION ELSE ramp_req.duration)
          /\ Reaches(ramp.duration)
               => (ramp_ret'.done /\ ramp_ret'.code = ramp_req.to
                     /\ ~ramp'.active)
          /\ ~Reaches(ramp.duration) => ~ramp_ret'.done
          /\ ramp_cum >= ramp.duration
               => (ramp_ret'.code = ramp_req.to /\ ~ramp'.active)
          /\ ramp_cum' < ramp.duration => ramp'.active]_vars
\* an update call made after the ramp has completed
C19_Witness ==
  /\ op = "ramp_update" /\ ramp_req.duration >= MIN_DURATION
  /\ ramp_req.from # ramp_req.to
  /\ ramp_cum > ramp_req.duration + 3 /\ ~ramp.active
  /\ ~ramp_ret.done /\ ramp_ret.code = ramp_req.to
\* the update call that completes a ramp
C19_WitnessDone ==
  /\ op = "ramp_update" /\ ramp_ret.done /\ ramp_req.from # ramp_req.to
  /\ ramp_cum >= ramp_req.duration /\ ramp_req.duration > MIN_DURATION

\* distance of the code v from the end value of the ramp
Dist(v) == IF v >= ramp_req.to THEN v - ramp_req.to ELSE ramp_req.to - v
\* two successive update calls, both before completion, on a ramp with
\* from # to
C20_TwoCalls ==
  /\ RampCall /\ op = "ramp_update" /\ ramp_req.from # ramp_req.to
  /\ ramp'.active

\* C20 (as stated): for a ramp with from # to, two successive update calls
\* with dt > 0 before completion return values v1, v2 with v2 strictly closer
\* to `to` than v1.
C20_Original ==
  [][C20_TwoCalls => Dist(ramp_ret'.code) < Dist(ramp_ret.code)]_vars

\* C20 (amended): for a ramp with from # to, two successive update calls
\* with dt > 0 before completion return values v1, v2 with v2 at least as
\* close to `to` as v1 and both between from and to (non-decreasing when
\* to > from, non-increasing when to < from); the values are whole codes, so
\* v2 = v1 when the step rounds away.
C20_RampMonotonic ==
  [][C20_TwoCalls
       => /\ Dist(ramp_ret'.code) <= Dist(ramp_ret.code)
          /\ ramp_req.to > ramp_req.from
               => (ramp_req.from <= ramp_ret.code
                     /\ ramp_ret.code <= ramp_ret'.code
                     /\ ramp_ret'.code <= ramp_req.to)
          /\ ramp_req.to < ramp_req.from
               => (ramp_req.from >= ramp_ret.code
                     /\ ramp_ret.code >= ramp_ret'.code
                     /\ ramp_ret'.code >= ramp_req.to)]_vars
\* a descending ramp after two update calls that returned different codes
\* strictly between its start and its end
C20_Witness ==
  /\ op = "ramp_update" /\ ramp.active /\ ramp_req.to < ramp_req.from
  /\ ramp_cum >= 2
  /\ ramp_ret.code < ramp_req.from /\ ramp_ret.code > ramp_req.to
  /\ ramp_ret.code # RampUpdate(ramp, 1).code

\* C21: in every reachable state the position lies in 0 .. 1 and the four
\* limit switches are exactly the threshold predicates of the position
\* (open-1 at >= 0.80, open-2 at >= 1.00, close-1 at <= 0.20, close-2 at
\* <= 0.00); hence open-2 implies open-1, close-2 implies close-1, and open-1
\* and close-1 are never both asserted.
C21_LimitsFollowPosition ==
  /\ position >= 0 /\ position <= POS_ONE
  /\ kv_o1 = (position >= OPEN1_POS)
  /\ kv_o2 = (position >= OPEN2_POS)
  /\ kv_z1 = (position <= CLOSE1_POS)
  /\ kv_z2 = (position <= CLOSE2_POS)
  /\ kv_o2 => kv_o1
  /\ kv_z2 => kv_z1
  /\ ~(kv_o1 /\ kv_z1)
\* an update has carried the gate to the fully open position, where both
\* open switches are asserted and both close switches are released
C21_Witness ==
  /\ op = "update" /\ position = POS_ONE
  /\ kv_o1 /\ kv_o2 /\ ~kv_z1 /\ ~kv_z2
\* an update has carried the gate between the two first switches
C21_WitnessBetween ==
  /\ op = "update" /\ position > CLOSE1_POS /\ position < OPEN1_POS
  /\ ~kv_o1 /\ ~kv_o2 /\ ~kv_z1 /\ ~kv_z2

\* the update that brings the ticks since an open press to RAMP_UP_SEC: the
\* ramp the press installed from code 0 is still the active one, so no
\* obstacle, no slow mode and no limit switch has re-armed it since
C22_LastTick ==
  /\ state = "OPENING" /\ direction = 1
  /\ ramp.active /\ ramp.duration = RAMP_UP_SEC /\ ramp.start_code = 0
  /\ ~slow_mode_30 /\ ~kv_o1
  /\ ~(uz1 \/ uz2) /\ stress < TH_70
  /\ ramp.t + dt >= RAMP_UP_SEC
  /\ op' = "update"

\* C22: after an open press in IDLE at position 0 and update ticks that
\* total RAMP_UP_SEC with no obstacle and the stress below TH_70, the
\* commanded code is CODE_NOM, the state is OPENING, slow mode is off, and
\* the position is above 0 and has not decreased in any tick.
C22_NormalOpen ==
  [][/\ C22_LastTick
        => /\ dac_code' = CODE_NOM /\ state' = "OPENING"
           /\ ~slow_mode_30' /\ position' > 0
     /\ (state = "OPENING" /\ direction = 1 /\ op' = "update")
        => position' >= position]_vars
\* the only press was the open press in the initial state, no sensor has
\* changed, and the ramp 0 -> CODE_NOM has just completed after RAMP_UP_SEC
C22_Witness ==
  /\ op = "update" /\ presses = 1 /\ sensorEvents = 0 /\ ko
  /\ state = "OPENING" /\ ~slow_mode_30 /\ dac_code = CODE_NOM
  /\ mid.dac = CODE_NOM
  /\ ~ramp.active /\ ramp.start_code = 0 /\ ramp.t = RAMP_UP_SEC
  /\ position > 0 /\ position < OPEN1_POS

\* C23: adc_code_from_voltage(u) is in 0 .. ADC_MAX for every u, is 0 for
\* u <= 0 and ADC_MAX for u >= ADC_VREF (it never wraps), and is monotone:
\* u1 <= u2 implies code(u1) <= code(u2).
C23_QuantizerSaturates ==
  op = "adc_code_from_voltage"
    => /\ \A i \in 1 .. 2 :
            /\ quant_code[i] \in 0 .. ADC_MAX
            /\ quant_u[i] <= 0 => quant_code[i] = 0
            /\ quant_u[i] >= ADC_VREF => quant_code[i] = ADC_MAX
       /\ quant_u[1] <= quant_u[2] => quant_code[1] <= quant_code[2]
\* the quantizer was called below zero and above the reference voltage, and
\* returned the two ends of the code range
C23_Witness ==
  /\ op = "adc_code_from_voltage"
  /\ quant_u[1] < 0 /\ quant_u[2] > ADC_VREF
  /\ quant_code = <<0, ADC_MAX>>
\* two voltages inside the range that are told apart
C23_WitnessInside ==
  /\ op = "adc_code_from_voltage"
  /\ 0 < quant_u[1] /\ quant_u[1] < quant_u[2] /\ quant_u[2] < ADC_VREF
  /\ 0 < quant_code[1] /\ quant_code[1] < quant_code[2]
  /\ quant_code[2] < ADC_MAX

\* a press taken in IDLE or STOPPED leaves the state and direction of its
\* button and a fresh ramp from the commanded code to `code` over RAMP_UP_SEC
C24_Installs(code) ==
  /\ state' = (IF op' = "press_open" THEN "OPENING" ELSE "CLOSING")
  /\ direction' = (IF op' = "press_open" THEN 1 ELSE -1)
  /\ target_code' = code
  /\ ramp' = RampStart(dac_code, code, RAMP_UP_SEC)
  /\ dac_code' = dac_code

\* C24 (as stated): an open press accepted in IDLE or STOPPED sets OPENING,
\* direction open, and installs a ramp from the current commanded value to
\* the nominal voltage over RAMP_UP_SEC whatever the position (also at or
\* beyond the first open switch); a close press symmetrically.
C24_Original ==
  [][(IsPress /\ state \in {"IDLE", "STOPPED"}) => C24_Installs(CODE_NOM)]_vars

\* C24 (amended): the target of that ramp is the nominal voltage unless the
\* first limit switch of the new direction is asserted at the press (open-1
\* for an open press, close-1 for a close press); then it is half of it.
C24_PressTarget ==
  [][(IsPress /\ state \in {"IDLE", "STOPPED"})
       => C24_Installs(IF (op' = "press_open" /\ kv_o1)
                            \/ (op' = "press_close" /\ kv_z1)
                         THEN CODE_HALF ELSE CODE_NOM)]_vars
\* an open press taken in STOPPED beyond the first open switch, while the
\* commanded code is still ramping down: the ramp goes to CODE_HALF
C24_Witness ==
  /\ op = "press_open" /\ logged # <<>> /\ kv_o1
  /\ state = "OPENING" /\ direction = 1
  /\ dac_code > 0 /\ target_code = CODE_HALF
  /\ ramp = RampStart(dac_code, CODE_HALF, RAMP_UP_SEC)
\* a close press taken away from the first close switch: the ramp goes to
\* CODE_NOM
C24_WitnessNominal ==
  /\ op = "press_close" /\ logged # <<>> /\ ~kv_z1
  /\ state = "CLOSING" /\ target_code = CODE_NOM

\* C25: after an emergency stop and while no button is pressed, the commanded
\* code never increases from tick to tick, is 0 once the ticks since the stop
\* total RAMP_DOWN_SEC, and then stays 0 with no ramp active.
C25_EmergencyRampDown ==
  [][(state = "STOPPED" /\ ~IsPress)
       => /\ state' = "STOPPED"
          /\ op' # "update" => (dac_code' = dac_code /\ ramp' = ramp)
          /\ op' = "update"
               => /\ dac_code' <= dac_code
                  /\ ramp.active
                       => /\ ramp.end_code = 0
                          /\ ramp.duration <= RAMP_DOWN_SEC
                          /\ ramp'.duration = ramp.duration
                          /\ ramp'.t = ramp.t + dt
                  /\ (ramp.active /\ ramp.t + dt >= RAMP_DOWN_SEC)
                       => (dac_code' = 0 /\ ~ramp'.active)
                  /\ ~ramp.active
                       => (dac_code = 0 /\ dac_code' = 0 /\ ~ramp'.active)]_vars
\* the stop caught the gate at a positive code, RAMP_DOWN_SEC of ticks have
\* passed since, and the code is 0 with the ramp finished
C25_Witness ==
  /\ op = "update" /\ state = "STOPPED" /\ mid.state = "STOPPED"
  /\ dac_code = 0 /\ target_code = 0 /\ ~ramp.active
  /\ ramp.start_code > 0 /\ ramp.t >= RAMP_DOWN_SEC
\* the code is part of the way down after the stop
C25_WitnessMidway ==
  /\ op = "update" /\ state = "STOPPED" /\ mid.state = "STOPPED"
  /\ ramp.active /\ dac_code > 0 /\ dac_code < ramp.start_code

\* C26: the position is changed only by update, and only while the state is
\* OPENING or CLOSING with a direction other than none; it never decreases
\* while the direction is open and never increases while it is close; it is
\* left alone by every update in IDLE or STOPPED (also while the code is
\* still ramping down) and by every press and sensor change.
C26_PositionFrame ==
  [][/\ op' # "update" => position' = position
     /\ (op' = "update" /\ (state \notin {"OPENING", "CLOSING"} \/ direction = 0))
          => position' = position
     /\ (op' = "update" /\ direction = 1) => position' >= position
     /\ (op' = "update" /\ direction = -1) => position' <= position]_vars
\* an update in STOPPED has lowered the commanded code on its way down and
\* the gate stands where the stop left it, between the ends
C26_Witness ==
  /\ op = "update" /\ state = "STOPPED" /\ mid.state = "STOPPED"
  /\ ramp.active /\ dac_code > 0 /\ dac_code < ramp.start_code
  /\ position > 0 /\ position < POS_ONE
\* an update has moved the gate back towards the closed end
C26_WitnessClosing ==
  /\ op = "update" /\ state = "CLOSING" /\ direction = -1
  /\ mid.state = "CLOSING" /\ mid.dac > 0
  /\ position > 0 /\ position < POS_ONE

\* C27: the ready flag, bit 15 of the input word an update returns, is 1 only
\* if at least one control cycle ran in that update; it is 0 in the first
\* updates, before SAMPLE_PERIOD of ticks has accumulated.
C27_ReadyOnlyAfterSample ==
  (op = "update" /\ Bit(port300, 15) = 1) => cycles >= 1

\* C28: whenever the direction is none the installed target code is 0: after
\* a limit-2 stop or an emergency stop has cleared the direction, no control
\* cycle installs a target other than 0 until a button press.
C28_NoTargetWithoutDirection ==
  direction = 0 => target_code = 0

\* C29: while slow mode is on the state is OPENING or CLOSING and the
\* installed target is CODE_SLOW; slow mode is off in IDLE and in STOPPED, and
\* right after every press that was taken.
C29_SlowModeShape ==
  /\ slow_mode_30 => (state \in {"OPENING", "CLOSING"} /\ target_code = CODE_SLOW)
  /\ state \in {"IDLE", "STOPPED"} => ~slow_mode_30
  /\ (op \in {"press_open", "press_close"} /\ logged # <<>>) => ~slow_mode_30
\* an update has entered slow mode, the ramp to CODE_SLOW is under way
C29_Witness ==
  /\ op = "update" /\ slow_mode_30 /\ state = "OPENING"
  /\ target_code = CODE_SLOW /\ ramp.active /\ ramp.end_code = CODE_SLOW
  /\ dac_code > CODE_SLOW
\* an emergency stop has ended slow mode
C29_WitnessStopped ==
  /\ op = "update" /\ state = "STOPPED" /\ ~slow_mode_30
  /\ mid.slow /\ mid.state = "CLOSING"

\* distance of the code v from CODE_SLOW
C30_Dist(v) == IF v >= CODE_SLOW THEN v - CODE_SLOW ELSE CODE_SLOW - v

\* C30 (as stated): from the control cycle that enters slow mode until slow
\* mode is left, the commanded code never exceeds its value at entry (the
\* start value of the ramp that the entry armed).
C30_Original ==
  slow_mode_30 => dac_code <= ramp.start_code

\* C30 (amended): the entry arms a ramp from the commanded code at entry to
\* CODE_SLOW over RAMP_DOWN_SEC, which stays the ramp for as long as slow mode
\* is on; until slow mode is left the code lies between its value at entry
\* and CODE_SLOW and no update moves it away from CODE_SLOW.  It never
\* exceeds the larger of the two: entered below CODE_SLOW, it rises to it.
C30_SlowRampBounded ==
  [][slow_mode_30'
       => /\ ramp'.end_code = CODE_SLOW /\ ramp'.duration = RAMP_DOWN_SEC
          /\ ~slow_mode_30
               => (ramp'.active /\ ramp'.t = 0 /\ ramp'.start_code = dac_code')
          /\ slow_mode_30
               => /\ ramp'.start_code = ramp.start_code
                  /\ C30_Dist(dac_code') <= C30_Dist(dac_code)
          /\ \/ (ramp'.start_code <= dac_code' /\ dac_code' <= CODE_SLOW)
             \/ (ramp'.start_code >= dac_code' /\ dac_code' >= CODE_SLOW)]_vars
\* slow mode was entered below CODE_SLOW and the code has risen above its
\* value at entry
C30_Witness ==
  /\ op = "update" /\ slow_mode_30 /\ mid.slow
  /\ ramp.start_code < CODE_SLOW
  /\ dac_code > ramp.start_code /\ dac_code <= CODE_SLOW
\* slow mode was entered above CODE_SLOW and the code is part of the way down
C30_WitnessDown ==
  /\ op = "update" /\ slow_mode_30 /\ mid.slow /\ ramp.active
  /\ ramp.start_code > CODE_SLOW
  /\ dac_code < ramp.start_code /\ dac_code > CODE_SLOW

\* the picked tasks and their dependencies that are picked as well
Picked == Range(picked_tasks)
PickedDeps(t) == depends_on[t] \cap Picked

\* the tasks reached from the set S along at most k dependency links
RECURSIVE Upstream(_, _)
Upstream(S, k) ==
  IF k = 0 THEN {}
  ELSE LET D == UNION {PickedDeps(x) : x \in S}
       IN  D \cup Upstream(D, k - 1)

\* depends_on restricted to the picked tasks has no cycle
Acyclic == \A t \in Picked : t \notin Upstream({t}, Len(picked_tasks))

\* the sort applied to the picked list with the dependencies d
SortOf(d) ==
  IF op = "recommend" THEN topo_sort(picked_tasks, d)
  ELSE topo_sort_v1(picked_tasks, d)

\* C31: topo_sort returns a permutation of its input (each task once, none
\* added, none lost) for every input; when depends_on restricted to the input
\* has no cycle, every task comes after all of its dependencies that are in
\* the input; dependencies on tasks outside the input are ignored.
C31_TopoSortPermutation ==
  op \in {"recommend", "recommend_v1"}
    => /\ Len(ordered_tasks) = Len(picked_tasks)
       /\ Range(ordered_tasks) = Picked
       /\ \A i \in DOMAIN ordered_tasks, j \in DOMAIN ordered_tasks :
            i # j => ordered_tasks[i] # ordered_tasks[j]
       /\ Acyclic
            => \A t \in Picked : \A d \in PickedDeps(t) :
                 Pos(ordered_tasks, d) < Pos(ordered_tasks, t)
       /\ ordered_tasks = SortOf([t \in TaskIris |-> PickedDeps(t)])
\* three picked tasks in a chain that the input lists against its direction,
\* one of them also depending on a task that is not picked: the sort has
\* turned the list round
C31_Witness ==
  /\ op = "recommend" /\ Len(picked_tasks) = 3 /\ Acyclic
  /\ \E t \in Picked : depends_on[t] \ Picked # {}
  /\ \E a \in Picked, b \in Picked, c \in Picked :
       /\ b \in depends_on[a] /\ c \in depends_on[b]
       /\ picked_tasks = <<a, b, c>> /\ ordered_tasks = <<c, b, a>>
\* two picked tasks that depend on each other and a third that is free: the
\* free one comes first, the other two follow in the order of the input
C31_WitnessCycle ==
  /\ op \in {"recommend", "recommend_v1"} /\ ~Acyclic
  /\ Len(picked_tasks) = 3 /\ Len(ordered_tasks) = 3
  /\ ordered_tasks[1] = picked_tasks[3]
  /\ ordered_tasks[2] = picked_tasks[1] /\ ordered_tasks[3] = picked_tasks[2]

\* C32: topo_sort followed by build_schedule_cp produces a plan entry for
\* every picked task for every task set, also when depends_on has a cycle,
\* and in the plan every task starts no earlier than the end of each of its
\* picked dependencies.
C32_PlanForEveryTask ==
  op = "recommend"
    => /\ schedule.status = "ok"
       /\ \A t \in Picked :
            \E k \in DOMAIN schedule.plan :
              /\ schedule.plan[k].task = t
              /\ \A d \in PickedDeps(t) :
                   \E m \in DOMAIN schedule.plan :
                     /\ schedule.plan[m].task = d
                     /\ schedule.plan[k].start >= schedule.plan[m].end

\* what does hold: when the picked dependencies have no cycle the plan is
\* complete and ordered as C32 says; when they have one, build_schedule_cp
\* raises KeyError and there is no plan
C32_AcyclicPlan ==
  op = "recommend"
    => IF Acyclic
         THEN /\ schedule.status = "ok"
              /\ Len(schedule.plan) = Len(picked_tasks)
              /\ \A k \in DOMAIN schedule.plan, m \in DOMAIN schedule.plan :
                   schedule.plan[m].task \in PickedDeps(schedule.plan[k].task)
                     => schedule.plan[k].start >= schedule.plan[m].end
              /\ {schedule.plan[k].task : k \in DOMAIN schedule.plan} = Picked
         ELSE schedule.status = "KeyError"

====
